---- MODULE Spec2Model ----
(***************************************************************************)
(* State machine of the vote-tracking web client: the shared client state  *)
(* store (AppContext), the upload / OCR / attendee / vote-pattern / law    *)
(* analysis orchestrators of the main page and the multi-PDF page.         *)
(*                                                                         *)
(* A handler closes over the store value of the render in which it was     *)
(* created, so the code after an `await` still reads the results list of   *)
(* the moment the handler was invoked: every request in flight carries     *)
(* that list as `snap`.                                                    *)
(***************************************************************************)
EXTENDS Integers, Sequences, FiniteSets, TLC

\* ------------------------------------------------------------------ bounds

\* Longest file selection and longest backend result list.
MaxFiles == 2
\* Handler executions (user events and handled responses) in one behaviour.
MaxSteps == 8

\* The handler executions of a behaviour in which the handlers are called
\* directly.
MaxDirectSteps == 6

\* The calls of a behaviour in which the store's setters are called in any
\* order.
MaxSetterCalls == 3

\* The handler executions of a behaviour that starts after a completed OCR
\* run.
MaxMergeSteps == 7

\* The longest list of updates passed to updateResults.
MaxUpdates == 2

\* ------------------------------------------------------------- value sets

\* JavaScript's undefined, for a string-valued optional field.
Undef == "undefined"

\* A JavaScript string used as a condition: undefined and '' are falsy.
Truthy(v) == v # Undef /\ v # ""

FileNames == {"a.pdf", "b.pdf"}

\* The files the user can pick: two PDFs and one file of another type.
File ==
    [name : FileNames, type : {"application/pdf"}]
    \cup {[name |-> "notes.txt", type |-> "text/plain"]}

SeqUpTo(S, n) == UNION {[1..k -> S] : k \in 0..n}

\* What a file input can deliver: any list of files, the empty one included.
Selections == SeqUpTo(File, MaxFiles)

ApiKeys == {"", "sk-1"}
Rubrics == {"", " ", "r"}
TextEdits == {"", "t2"}

\* One entry of the /process-pdfs response.
OcrEntry ==
    [filename : FileNames, success : {TRUE}, total_pages : {"3"},
     extracted_text : {"t1"}, error : {Undef}]
    \cup
    [filename : FileNames, success : {FALSE}, total_pages : {Undef},
     extracted_text : {Undef}, error : {"OCR failed"}]

\* One entry of a batch response; `value` is the stage's payload field
\* (attendees, vote_patterns or law_analysis).
BatchEntry ==
    [filename : FileNames, success : {TRUE}, value : {"v1"}, error : {Undef}]
    \cup
    [filename : FileNames, success : {FALSE}, value : {Undef}, error : {"e1"}]

\* What fetch can end with: a 2xx body with a results list, a 2xx body
\* without one (the mapping throws), a non-2xx body with or without a detail
\* string, or a rejected promise.
NoResults == <<>>
Failures ==
    {[kind |-> "http", results |-> NoResults, detail |-> "Server error"],
     [kind |-> "http", results |-> NoResults, detail |-> Undef],
     [kind |-> "network", results |-> NoResults, detail |-> Undef],
     [kind |-> "malformed", results |-> NoResults, detail |-> Undef]}
OcrResponses ==
    [kind : {"ok"}, results : SeqUpTo(OcrEntry, MaxFiles), detail : {Undef}]
    \cup Failures
BatchResponses ==
    [kind : {"ok"}, results : SeqUpTo(BatchEntry, MaxFiles), detail : {Undef}]
    \cup Failures

\* The message the catch block shows: err.message.
ErrMessage(r, fallback) ==
    CASE r.kind = "http" -> IF Truthy(r.detail) THEN r.detail ELSE fallback
      [] r.kind = "network" -> "Failed to fetch"
      [] OTHER -> "Cannot read properties of undefined"

\* ------------------------------------------------------------------ state

VARIABLES
    page,           \* which page is mounted: "votes", "analysis", "multi",
                    \* "step2" or "step3"
    state,          \* AppProvider's state (main pages)
    selectedFiles,  \* PdfUploadSection / MultiPdfProcessing local state
    error,          \* the error string of each component
    multiPdfData,   \* the multi-PDF slice of the multi-PDF page's store
    textPage,       \* the Step2 / Step3 page: its local state and its store slice
    inflight,       \* requests issued and not yet answered, oldest first
    steps,          \* handlers run so far
    ev              \* the handler that ran last, and whether it went through

vars == <<page, state, selectedFiles, error, multiPdfData, textPage, inflight, steps, ev>>

Pages == {"votes", "analysis", "multi", "step2", "step3"}

\* The pages with one text area and one submit button.
TextPages == {"step2", "step3"}

\* The text the earlier steps left in the store for the page to start from;
\* '' when they have not run.
Prefills == {"", "t1"}

\* Step2 / Step3: inputText (local state and step<k>Data.inputText, which
\* handleInputChange and the effects keep equal), loading, results and error
\* (local state), and the result kept in the store.
textPageInitial(prefill) ==
    [prefill |-> prefill, inputText |-> prefill, loading |-> FALSE,
     results |-> Undef, stored |-> Undef, error |-> ""]

initialState ==
    [apiKey |-> "", files |-> <<>>, results |-> <<>>, rubric |-> "",
     currentStep |-> 1, step0Status |-> "idle", step1Status |-> "idle",
     step2Status |-> "idle", step3Status |-> "idle"]

multiInitial == [files |-> <<>>, results |-> <<>>, processingStatus |-> "idle"]

noError ==
    [upload |-> "", ocr |-> "", step2 |-> "", step3 |-> "", analysis |-> "", multi |-> ""]

\* ok: the handler passed its validation, or the response was merged.
Event(op, ok) == [op |-> op, ok |-> ok]

Init ==
    /\ page \in Pages
    /\ state = initialState
    /\ selectedFiles = <<>>
    /\ error = noError
    /\ multiPdfData = multiInitial
    /\ \E prefill \in Prefills :
          /\ page \notin TextPages => prefill = ""
          /\ textPage = textPageInitial(prefill)
    /\ inflight = <<>>
    /\ steps = 0
    /\ ev = Event("mount", TRUE)

\* ------------------------------------------------------- the store setters

\* setCurrentStep that builds the new state from initialState instead of prev.
setCurrentStep_FromInitial(prev, step) ==
    IF prev.currentStep = step THEN prev ELSE [initialState EXCEPT !.currentStep = step]

\* The updater returns prev itself (`return prev`): React then keeps the state
\* object and renders nothing.
setCurrentStepReturnsPrev(prev, step) == prev.currentStep = step

setCurrentStep(prev, step) ==
    IF prev.currentStep = step THEN prev ELSE [prev EXCEPT !.currentStep = step]

setApiKey(prev, key) == [prev EXCEPT !.apiKey = key]

\* setFiles that also empties the results.
setFiles_ClearsResults(prev, files) == [prev EXCEPT !.files = files, !.results = <<>>]

setFiles(prev, files) == [prev EXCEPT !.files = files]

\* setResults that also sets the OCR stage back to idle.
setResults_ResetsStage(prev, results) ==
    [prev EXCEPT !.results = results, !.step1Status = "idle"]

setResults(prev, results) == [prev EXCEPT !.results = results]

\* rubric.trim() is non-empty when some character is not white space.
Trim(s) == IF s = " " THEN "" ELSE s

\* setRubric that tests the rubric without trimming it.
setRubric_NoTrim(prev, rubric) ==
    [prev EXCEPT !.rubric = rubric,
                 !.step0Status = IF Truthy(rubric) THEN "complete" ELSE "idle"]

setRubric(prev, rubric) ==
    [prev EXCEPT !.rubric = rubric,
                 !.step0Status = IF Truthy(Trim(rubric)) THEN "complete" ELSE "idle"]

\* updateResults that appends the updates beyond the end of the list.
updateResults_Appends(prev, updates) ==
    [prev EXCEPT !.results =
        [i \in 1..(IF Len(updates) > Len(prev.results) THEN Len(updates)
                                                     ELSE Len(prev.results)) |->
            IF i \in DOMAIN prev.results
              THEN IF i \in DOMAIN updates
                     THEN [f \in DOMAIN prev.results[i] \cup DOMAIN updates[i] |->
                             IF f \in DOMAIN updates[i] THEN updates[i][f]
                                                       ELSE prev.results[i][f]]
                     ELSE prev.results[i]
              ELSE updates[i]]]

\* updateResults: a copy of the list in which every index below its length
\* that the updates also have holds { ...record, ...update }.
updateResults(prev, updates) ==
    [prev EXCEPT !.results =
        [i \in DOMAIN prev.results |->
            IF i \in DOMAIN updates
              THEN [f \in DOMAIN prev.results[i] \cup DOMAIN updates[i] |->
                      IF f \in DOMAIN updates[i] THEN updates[i][f]
                                                ELSE prev.results[i][f]]
              ELSE prev.results[i]]]

\* The key the template literal `step${step}Status` names.
StatusField(step) ==
    CASE step = 1 -> "step1Status"
      [] step = 2 -> "step2Status"
      [] step = 3 -> "step3Status"

setStepStatus(prev, step, status) == [prev EXCEPT ![StatusField(step)] = status]

\* clearData that also forgets the API key.
clearData_ForgetsApiKey(prev) ==
    [initialState EXCEPT !.currentStep = prev.currentStep]

\* clearData without the reset of the stage statuses.
clearData_KeepsStatuses(prev) ==
    [prev EXCEPT !.files = <<>>, !.results = <<>>, !.rubric = ""]

clearData(prev) ==
    [prev EXCEPT !.files = <<>>, !.results = <<>>, !.rubric = "",
                 !.step0Status = "idle", !.step1Status = "idle",
                 !.step2Status = "idle", !.step3Status = "idle"]

\* ---------------------------------------------------- multi-PDF page store

setMultiPdfFiles(prev, files) == [prev EXCEPT !.files = files]

setMultiPdfResults(prev, results) == [prev EXCEPT !.results = results]

setMultiPdfStatus(prev, status) == [prev EXCEPT !.processingStatus = status]

clearMultiPdfData(prev) == multiInitial

\* ------------------------------------------------------- result records

\* InitialResult without the initial extractedText.
InitialResult_NoText(file) ==
    [filename |-> file.name, success |-> FALSE, totalPages |-> Undef,
     extractedText |-> Undef, error |-> Undef,
     attendees |-> Undef, attendeesError |-> Undef,
     votePatterns |-> Undef, votePatternsError |-> Undef,
     lawAnalysis |-> Undef, lawAnalysisError |-> Undef]

\* The record handleFileChange creates for one accepted file.
InitialResult(file) ==
    [filename |-> file.name, success |-> FALSE, totalPages |-> Undef,
     extractedText |-> "", error |-> Undef,
     attendees |-> Undef, attendeesError |-> Undef,
     votePatterns |-> Undef, votePatternsError |-> Undef,
     lawAnalysis |-> Undef, lawAnalysisError |-> Undef]

IsPdf(file) == file.type = "application/pdf"

\* OcrRecord reading the camelCase names from the entry, which has none.
OcrRecord_CamelCase(e) ==
    [filename |-> e.filename, success |-> e.success, totalPages |-> Undef,
     extractedText |-> Undef, error |-> e.error,
     attendees |-> Undef, attendeesError |-> Undef,
     votePatterns |-> Undef, votePatternsError |-> Undef,
     lawAnalysis |-> Undef, lawAnalysisError |-> Undef]

\* The record the OCR orchestrator builds from one response entry.
OcrRecord(e) ==
    [filename |-> e.filename, success |-> e.success, totalPages |-> e.total_pages,
     extractedText |-> e.extracted_text, error |-> e.error,
     attendees |-> Undef, attendeesError |-> Undef,
     votePatterns |-> Undef, votePatternsError |-> Undef,
     lawAnalysis |-> Undef, lawAnalysisError |-> Undef]

\* OcrUpdates that keeps one record per selected file at most.
OcrUpdates_PerSelectedFile(data) ==
    [k \in {n \in DOMAIN data : n <= Len(state.files)} |-> OcrRecord(data[k])]

\* const updates = data.results.map(...): one record per response entry, in
\* the order of the response.
OcrUpdates(data) == [k \in DOMAIN data |-> OcrRecord(data[k])]

\* Advanceable without the test of the text.
Advanceable_SuccessOnly(result) == result.success

\* result.success && result.extractedText
Advanceable(result) == result.success /\ Truthy(result.extractedText)

Entry(result) ==
    [filename |-> result.filename,
     text |-> IF Truthy(result.extractedText) THEN result.extractedText ELSE ""]

\* The entries of a batch request.
Entries(results) ==
    LET valid == SelectSeq(results, Advanceable)
    IN  [k \in DOMAIN valid |-> Entry(valid[k])]

\* Find that returns the last entry with the filename.
Find_Last(data, filename) ==
    LET hits == {i \in DOMAIN data : data[i].filename = filename}
    IN  IF hits = {} THEN 0 ELSE CHOOSE i \in hits : \A j \in hits : i >= j

\* data.results.find(r => r.filename === filename): the index of the first
\* entry with that filename, 0 when there is none.
Find(data, filename) ==
    LET hits == {i \in DOMAIN data : data[i].filename = filename}
    IN  IF hits = {} THEN 0 ELSE CHOOSE i \in hits : \A j \in hits : i <= j

\* Merge that clears the counterpart of the field it writes.
Merge_ClearsCounterpart(results, data, field, errField) ==
    [i \in DOMAIN results |->
        LET result == results[i]
            m == Find(data, result.filename)
        IN  IF m # 0 /\ data[m].success
              THEN [result EXCEPT ![field] = data[m].value, ![errField] = Undef]
              ELSE IF m # 0 /\ ~data[m].success
                     THEN [result EXCEPT ![errField] = data[m].error, ![field] = Undef]
                     ELSE result]

\* Merge that appends the updated copy of each matched record to the list
\* instead of replacing the record.
Merge_Append(results, data, field, errField) ==
    LET matched == SelectSeq(results, LAMBDA result : Find(data, result.filename) # 0)
    IN  results \o
        [i \in DOMAIN matched |->
            LET result == matched[i]
                m == Find(data, result.filename)
            IN  IF data[m].success
                  THEN [result EXCEPT ![field] = data[m].value]
                  ELSE [result EXCEPT ![errField] = data[m].error]]

\* The updates list of a batch stage: each record of `results` with the field
\* or the error field of its matching entry set.
Merge(results, data, field, errField) ==
    [i \in DOMAIN results |->
        LET result == results[i]
            m == Find(data, result.filename)
        IN  IF m # 0 /\ data[m].success
              THEN [result EXCEPT ![field] = data[m].value]
              ELSE IF m # 0 /\ ~data[m].success
                     THEN [result EXCEPT ![errField] = data[m].error]
                     ELSE result]

MergeAttendees(results, data) == Merge(results, data, "attendees", "attendeesError")

MergeVotePatterns(results, data) == Merge(results, data, "votePatterns", "votePatternsError")

MergeLawAnalysis(results, data) == Merge(results, data, "lawAnalysis", "lawAnalysisError")

\* The catch block of the law analysis stage.
LawAnalysisFailed(results, message) ==
    [i \in DOMAIN results |->
        IF Advanceable(results[i])
          THEN [results[i] EXCEPT !.lawAnalysisError = message]
          ELSE results[i]]

TextEdited(results, filename, value) ==
    [i \in DOMAIN results |->
        IF results[i].filename = filename
          THEN [results[i] EXCEPT !.extractedText = value]
          ELSE results[i]]

canProceedToStep2 == state.step1Status = "complete" /\ (\E i \in DOMAIN state.results : state.results[i].success)

\* canProceedToStep3 without the test of step2Status.
canProceedToStep3_AttendeesOnly == \E i \in DOMAIN state.results : Truthy(state.results[i].attendees)

canProceedToStep3 == state.step2Status = "complete" /\ (\E i \in DOMAIN state.results : Truthy(state.results[i].attendees))

canProceedToAnalysis ==
    /\ state.step1Status = "complete"
    /\ \E i \in DOMAIN state.results : Advanceable(state.results[i])
    /\ Truthy(Trim(state.rubric))

\* A request on the wire: its body, and the results list its handler closed
\* over (the batch stages read it again after the await).
Request(stage, entries, snap) == [stage |-> stage, entries |-> entries, snap |-> snap]

\* The requests in flight without the one at position i.
Answered(requests, i) ==
    [j \in 1..(Len(requests) - 1) |-> IF j < i THEN requests[j] ELSE requests[j + 1]]

\* Every handler execution counts against the bound.
Tick == steps < MaxSteps /\ steps' = steps + 1

\* ------------------------------------------- upload section (main pages)

MainPage == page \in {"votes", "analysis"}

\* The API key input's onChange: it fires when the value changes.
SetApiKey(key) ==
    /\ Tick
    /\ key # state.apiKey
    /\ state' = setApiKey(state, key)
    /\ ev' = Event("setApiKey", TRUE)
    /\ UNCHANGED <<page, textPage, selectedFiles, error, multiPdfData, inflight>>

\* handleFileChange that keeps the PDFs of a mixed selection.
handleFileChange_AcceptsPdfs(files) ==
    /\ Tick
    /\ MainPage
    /\ LET pdfFiles == SelectSeq(files, IsPdf)
       IN  /\ selectedFiles' = pdfFiles
           /\ error' = [error EXCEPT !.upload = IF Len(pdfFiles) # Len(files)
                                                   THEN "Only PDF files are allowed"
                                                   ELSE ""]
           /\ state' = setResults(setFiles(state, pdfFiles),
                                  [k \in DOMAIN pdfFiles |-> InitialResult(pdfFiles[k])])
    /\ ev' = Event("handleFileChange", Len(SelectSeq(files, IsPdf)) = Len(files))
    /\ UNCHANGED <<page, textPage, multiPdfData, inflight>>

handleFileChange(files) ==
    /\ Tick
    /\ MainPage
    /\ LET pdfFiles == SelectSeq(files, IsPdf)
       IN  IF Len(pdfFiles) # Len(files)
             THEN /\ error' = [error EXCEPT !.upload = "Only PDF files are allowed"]
                  /\ UNCHANGED <<state, selectedFiles>>
             ELSE /\ selectedFiles' = pdfFiles
                  /\ error' = [error EXCEPT !.upload = ""]
                  /\ state' = setResults(setFiles(state, pdfFiles),
                                         [k \in DOMAIN pdfFiles |-> InitialResult(pdfFiles[k])])
    /\ ev' = Event("handleFileChange", Len(SelectSeq(files, IsPdf)) = Len(files))
    /\ UNCHANGED <<page, textPage, multiPdfData, inflight>>

\* handleClear that also drops the requests in flight.
handleClear_Cancels ==
    /\ Tick
    /\ MainPage
    /\ selectedFiles' = <<>>
    /\ state' = setCurrentStep(clearData(state), 1)
    /\ error' = [error EXCEPT !.upload = ""]
    /\ inflight' = <<>>
    /\ ev' = Event("handleClear", TRUE)
    /\ UNCHANGED <<page, textPage, multiPdfData>>

handleClear ==
    /\ Tick
    /\ MainPage
    /\ selectedFiles' = <<>>
    /\ state' = setCurrentStep(clearData(state), 1)
    /\ error' = [error EXCEPT !.upload = ""]
    /\ ev' = Event("handleClear", TRUE)
    /\ UNCHANGED <<page, textPage, multiPdfData, inflight>>

\* ------------------------------------------------------------ OCR stage

Step1Enabled ==
    /\ state.step1Status # "processing"
    /\ Truthy(state.apiKey)
    /\ Len(state.files) # 0

\* handleStep1Process up to its await, whatever the state of the button.
step1Process ==
    /\ Tick
    /\ MainPage
    /\ IF ~Truthy(state.apiKey)
         THEN /\ error' = [error EXCEPT !.ocr = "Please enter your API key"]
              /\ UNCHANGED <<state, inflight>>
         ELSE IF Len(state.files) = 0
                THEN /\ error' = [error EXCEPT !.ocr = "Please select at least one PDF file"]
                     /\ UNCHANGED <<state, inflight>>
                ELSE /\ state' = setStepStatus(state, 1, "processing")
                     /\ error' = [error EXCEPT !.ocr = ""]
                     /\ inflight' = Append(inflight, Request("ocr", state.files, <<>>))
    /\ ev' = Event("handleStep1Process", inflight' # inflight)
    /\ UNCHANGED <<page, textPage, selectedFiles, multiPdfData>>

\* The trigger control runs the handler when it is enabled.
handleStep1Process ==
    /\ Step1Enabled
    /\ step1Process

\* step1Response whose failure branch also empties the results list.
step1Response_FailureClearsResults(i, r) ==
    /\ Tick
    /\ i \in DOMAIN inflight /\ inflight[i].stage = "ocr"
    /\ inflight' = Answered(inflight, i)
    /\ IF r.kind = "ok"
         THEN /\ state' = setStepStatus(setResults(state, OcrUpdates(r.results)), 1, "complete")
              /\ UNCHANGED error
         ELSE /\ error' = [error EXCEPT !.ocr = ErrMessage(r, "Failed to process PDFs")]
              /\ state' = setStepStatus(setResults(state, <<>>), 1, "error")
    /\ ev' = Event("step1Response", r.kind = "ok")
    /\ UNCHANGED <<page, textPage, selectedFiles, multiPdfData>>

step1Response(i, r) ==
    /\ Tick
    /\ i \in DOMAIN inflight /\ inflight[i].stage = "ocr"
    /\ inflight' = Answered(inflight, i)
    /\ IF r.kind = "ok"
         THEN /\ state' = setStepStatus(setResults(state, OcrUpdates(r.results)), 1, "complete")
              /\ UNCHANGED error
         ELSE /\ error' = [error EXCEPT !.ocr = ErrMessage(r, "Failed to process PDFs")]
              /\ state' = setStepStatus(state, 1, "error")
    /\ ev' = Event("step1Response", r.kind = "ok")
    /\ UNCHANGED <<page, textPage, selectedFiles, multiPdfData>>

handleTextEdit(filename, value) ==
    /\ Tick
    /\ MainPage
    /\ \E i \in DOMAIN state.results :
          state.results[i].success /\ state.results[i].filename = filename
    /\ state' = setResults(state, TextEdited(state.results, filename, value))
    /\ ev' = Event("handleTextEdit", TRUE)
    /\ UNCHANGED <<page, textPage, selectedFiles, error, multiPdfData, inflight>>

\* ------------------------------------ attendee and vote-pattern stages

\* handleStep2Process up to its await, whatever the state of the button.
step2Process ==
    /\ Tick
    /\ page = "votes"
    /\ IF ~Truthy(state.apiKey)
         THEN /\ error' = [error EXCEPT !.step2 = "Please enter your API key"]
              /\ UNCHANGED <<state, inflight>>
         ELSE /\ state' = setStepStatus(state, 2, "processing")
              /\ error' = [error EXCEPT !.step2 = ""]
              /\ inflight' = Append(inflight, Request("attendees", Entries(state.results), state.results))
    /\ ev' = Event("handleStep2Process", inflight' # inflight)
    /\ UNCHANGED <<page, textPage, selectedFiles, multiPdfData>>

\* The trigger control runs the handler when it is enabled.
handleStep2Process ==
    /\ state.step2Status # "processing" /\ canProceedToStep2
    /\ step2Process

\* step2Response that issues the request again when the call failed.
step2Response_Retries(i, r) ==
    /\ Tick
    /\ i \in DOMAIN inflight /\ inflight[i].stage = "attendees"
    /\ IF r.kind = "ok"
         THEN /\ state' = setStepStatus(
                             setResults(state, MergeAttendees(inflight[i].snap, r.results)),
                             2, "complete")
              /\ inflight' = Answered(inflight, i)
              /\ UNCHANGED error
         ELSE /\ error' = [error EXCEPT !.step2 = ErrMessage(r, "Failed to extract attendees")]
              /\ state' = setStepStatus(state, 2, "error")
              /\ inflight' = Append(Answered(inflight, i), inflight[i])
    /\ ev' = Event("step2Response", r.kind = "ok")
    /\ UNCHANGED <<page, textPage, selectedFiles, multiPdfData>>

step2Response(i, r) ==
    /\ Tick
    /\ i \in DOMAIN inflight /\ inflight[i].stage = "attendees"
    /\ inflight' = Answered(inflight, i)
    /\ IF r.kind = "ok"
         THEN /\ state' = setStepStatus(
                             setResults(state, MergeAttendees(inflight[i].snap, r.results)),
                             2, "complete")
              /\ UNCHANGED error
         ELSE /\ error' = [error EXCEPT !.step2 = ErrMessage(r, "Failed to extract attendees")]
              /\ state' = setStepStatus(state, 2, "error")
    /\ ev' = Event("step2Response", r.kind = "ok")
    /\ UNCHANGED <<page, textPage, selectedFiles, multiPdfData>>

\* handleStep3Process up to its await, whatever the state of the button.
step3Process ==
    /\ Tick
    /\ page = "votes"
    /\ IF ~Truthy(state.apiKey)
         THEN /\ error' = [error EXCEPT !.step3 = "Please enter your API key"]
              /\ UNCHANGED <<state, inflight>>
         ELSE /\ state' = setStepStatus(state, 3, "processing")
              /\ error' = [error EXCEPT !.step3 = ""]
              /\ inflight' = Append(inflight, Request("votePatterns", Entries(state.results), state.results))
    /\ ev' = Event("handleStep3Process", inflight' # inflight)
    /\ UNCHANGED <<page, textPage, selectedFiles, multiPdfData>>

\* The trigger control runs the handler when it is enabled.
handleStep3Process ==
    /\ state.step3Status # "processing" /\ canProceedToStep3
    /\ step3Process

\* step3Response that merges into the store's current results instead of the
\* list its handler closed over.
step3Response_MergesIntoStore(i, r) ==
    /\ Tick
    /\ i \in DOMAIN inflight /\ inflight[i].stage = "votePatterns"
    /\ inflight' = Answered(inflight, i)
    /\ IF r.kind = "ok"
         THEN /\ state' = setStepStatus(
                             setResults(state, MergeVotePatterns(state.results, r.results)),
                             3, "complete")
              /\ UNCHANGED error
         ELSE /\ error' = [error EXCEPT !.step3 =
                                 ErrMessage(r, "Failed to extract vote patterns")]
              /\ state' = setStepStatus(state, 3, "error")
    /\ ev' = Event("step3Response", r.kind = "ok")
    /\ UNCHANGED <<page, textPage, selectedFiles, multiPdfData>>

step3Response(i, r) ==
    /\ Tick
    /\ i \in DOMAIN inflight /\ inflight[i].stage = "votePatterns"
    /\ inflight' = Answered(inflight, i)
    /\ IF r.kind = "ok"
         THEN /\ state' = setStepStatus(
                             setResults(state, MergeVotePatterns(inflight[i].snap, r.results)),
                             3, "complete")
              /\ UNCHANGED error
         ELSE /\ error' = [error EXCEPT !.step3 =
                                 ErrMessage(r, "Failed to extract vote patterns")]
              /\ state' = setStepStatus(state, 3, "error")
    /\ ev' = Event("step3Response", r.kind = "ok")
    /\ UNCHANGED <<page, textPage, selectedFiles, multiPdfData>>

\* ------------------------------------------ rubric and law analysis stage

handleRubricChange(value) ==
    /\ Tick
    /\ page = "analysis"
    /\ value # state.rubric
    /\ state' = setRubric(state, value)
    /\ ev' = Event("handleRubricChange", TRUE)
    /\ UNCHANGED <<page, textPage, selectedFiles, error, multiPdfData, inflight>>

handleClearRubric ==
    /\ Tick
    /\ page = "analysis"
    /\ Truthy(state.rubric)
    /\ state' = setRubric(state, "")
    /\ ev' = Event("handleClearRubric", TRUE)
    /\ UNCHANGED <<page, textPage, selectedFiles, error, multiPdfData, inflight>>

\* handleAnalysisProcess up to its await, whatever the state of the button.
analysisProcess ==
    /\ Tick
    /\ page = "analysis"
    /\ LET validResults == SelectSeq(state.results, Advanceable)
       IN  IF ~Truthy(state.apiKey)
             THEN /\ error' = [error EXCEPT !.analysis = "Please enter your API key"]
                  /\ UNCHANGED <<state, inflight>>
             ELSE IF ~Truthy(Trim(state.rubric))
                    THEN /\ error' = [error EXCEPT !.analysis =
                                            "Please enter a rubric in Step 0"]
                         /\ UNCHANGED <<state, inflight>>
                    ELSE IF Len(validResults) = 0
                           THEN /\ error' = [error EXCEPT !.analysis =
                                      "Please complete OCR processing first (Step 1)"]
                                /\ UNCHANGED <<state, inflight>>
                           ELSE /\ state' = setStepStatus(state, 2, "processing")
                                /\ error' = [error EXCEPT !.analysis = ""]
                                /\ inflight' = Append(inflight, Request("lawAnalysis", Entries(state.results), state.results))
    /\ ev' = Event("handleAnalysisProcess", inflight' # inflight)
    /\ UNCHANGED <<page, textPage, selectedFiles, multiPdfData>>

\* The trigger control runs the handler when it is enabled.
handleAnalysisProcess ==
    /\ state.step2Status # "processing" /\ canProceedToAnalysis
    /\ analysisProcess

analysisResponse(i, r) ==
    /\ Tick
    /\ i \in DOMAIN inflight /\ inflight[i].stage = "lawAnalysis"
    /\ inflight' = Answered(inflight, i)
    /\ IF r.kind = "ok"
         THEN /\ state' = setStepStatus(
                             setResults(state, MergeLawAnalysis(inflight[i].snap, r.results)),
                             2, "complete")
              /\ UNCHANGED error
         ELSE LET message == ErrMessage(r, "Failed to analyze laws")
              IN  /\ error' = [error EXCEPT !.analysis = message]
                  /\ state' = setResults(setStepStatus(state, 2, "error"),
                                         LawAnalysisFailed(inflight[i].snap, message))
    /\ ev' = Event("analysisResponse", r.kind = "ok")
    /\ UNCHANGED <<page, textPage, selectedFiles, multiPdfData>>

\* ------------------------------------------------------- multi-PDF page

multiHandleFileChange(files) ==
    /\ Tick
    /\ page = "multi"
    /\ LET pdfFiles == SelectSeq(files, IsPdf)
       IN  IF Len(pdfFiles) # Len(files)
             THEN /\ error' = [error EXCEPT !.multi = "Only PDF files are allowed"]
                  /\ UNCHANGED <<multiPdfData, selectedFiles>>
             ELSE /\ selectedFiles' = pdfFiles
                  /\ multiPdfData' = setMultiPdfFiles(multiPdfData, pdfFiles)
                  /\ error' = [error EXCEPT !.multi = ""]
    /\ ev' = Event("multiHandleFileChange", Len(SelectSeq(files, IsPdf)) = Len(files))
    /\ UNCHANGED <<page, textPage, state, inflight>>

isProcessing == multiPdfData.processingStatus = "processing"

\* handleSubmit of the multi-PDF page up to its await, whatever the state of the button.
multiSubmit ==
    /\ Tick
    /\ page = "multi"
    /\ IF ~Truthy(state.apiKey)
         THEN /\ error' = [error EXCEPT !.multi = "Please enter your API key"]
              /\ UNCHANGED <<multiPdfData, inflight>>
         ELSE IF Len(selectedFiles) = 0
                THEN /\ error' = [error EXCEPT !.multi =
                                        "Please select at least one PDF file"]
                     /\ UNCHANGED <<multiPdfData, inflight>>
                ELSE /\ multiPdfData' =
                           clearMultiPdfData(setMultiPdfStatus(multiPdfData, "processing"))
                     /\ error' = [error EXCEPT !.multi = ""]
                     /\ inflight' = Append(inflight, Request("multi", selectedFiles, <<>>))
    /\ ev' = Event("multiHandleSubmit", inflight' # inflight)
    /\ UNCHANGED <<page, textPage, state, selectedFiles>>

\* The trigger control runs the handler when it is enabled.
multiHandleSubmit ==
    /\ ~isProcessing /\ Truthy(state.apiKey) /\ Len(selectedFiles) # 0
    /\ multiSubmit

multiResponse(i, r) ==
    /\ Tick
    /\ i \in DOMAIN inflight /\ inflight[i].stage = "multi"
    /\ inflight' = Answered(inflight, i)
    /\ IF r.kind = "ok"
         THEN /\ multiPdfData' =
                    setMultiPdfStatus(setMultiPdfResults(multiPdfData, r.results), "complete")
              /\ UNCHANGED error
         ELSE /\ error' = [error EXCEPT !.multi = ErrMessage(r, "Failed to process PDFs")]
              /\ multiPdfData' = setMultiPdfStatus(multiPdfData, "error")
    /\ ev' = Event("multiResponse", r.kind = "ok")
    /\ UNCHANGED <<page, textPage, state, selectedFiles>>

multiHandleClear ==
    /\ Tick
    /\ page = "multi"
    /\ ~isProcessing
    /\ selectedFiles' = <<>>
    /\ multiPdfData' = clearMultiPdfData(multiPdfData)
    /\ error' = [error EXCEPT !.multi = ""]
    /\ ev' = Event("multiHandleClear", TRUE)
    /\ UNCHANGED <<page, textPage, state, inflight>>

\* ---------------------------------------------- Step2 / Step3 text pages

TextInputs == {"", " ", "t2"}

\* The body of a 2xx answer of /extract-attendees or /extract-vote-patterns.
TextResponses ==
    [kind : {"ok"}, results : {"v1"}, detail : {Undef}]
    \cup {[kind |-> f.kind, results |-> Undef, detail |-> f.detail] : f \in Failures}

\* The prepopulate effect: an empty input text is filled from the earlier
\* steps' results when there are any.
Prepopulated(tp) ==
    IF Truthy(tp.prefill) /\ ~Truthy(tp.inputText)
      THEN [tp EXCEPT !.inputText = tp.prefill]
      ELSE tp

\* The effect that loads the store's result into the page when the store's
\* slice changes.
Loaded(tp) == IF Truthy(tp.stored) THEN [tp EXCEPT !.results = tp.stored] ELSE tp

handleInputChange(text) ==
    /\ Tick
    /\ page \in TextPages
    /\ text # textPage.inputText
    /\ textPage' = Prepopulated(Loaded([textPage EXCEPT !.inputText = text]))
    /\ ev' = Event("handleInputChange", TRUE)
    /\ UNCHANGED <<page, state, selectedFiles, error, multiPdfData, inflight>>

\* textSubmit testing the text without trimming it.
textSubmit_NoTrim ==
    /\ Tick
    /\ page \in TextPages
    /\ IF ~Truthy(state.apiKey)
         THEN /\ textPage' = [textPage EXCEPT !.error = "Please enter your API key in Step 1"]
              /\ UNCHANGED inflight
         ELSE IF ~Truthy(textPage.inputText)
                THEN /\ textPage' = [textPage EXCEPT !.error = "Please enter text to analyze"]
                     /\ UNCHANGED inflight
                ELSE /\ textPage' = [textPage EXCEPT !.loading = TRUE, !.error = "",
                                                      !.results = Undef]
                     /\ inflight' = Append(inflight,
                                           Request(page, textPage.inputText, <<>>))
    /\ ev' = Event("handleSubmit", inflight' # inflight)
    /\ UNCHANGED <<page, state, selectedFiles, error, multiPdfData>>

\* handleSubmit of Step2 / Step3 up to its await, whatever the state of the
\* button.
textSubmit ==
    /\ Tick
    /\ page \in TextPages
    /\ IF ~Truthy(state.apiKey)
         THEN /\ textPage' = [textPage EXCEPT !.error = "Please enter your API key in Step 1"]
              /\ UNCHANGED inflight
         ELSE IF ~Truthy(Trim(textPage.inputText))
                THEN /\ textPage' = [textPage EXCEPT !.error = "Please enter text to analyze"]
                     /\ UNCHANGED inflight
                ELSE /\ textPage' = [textPage EXCEPT !.loading = TRUE, !.error = "",
                                                      !.results = Undef]
                     /\ inflight' = Append(inflight,
                                           Request(page, textPage.inputText, <<>>))
    /\ ev' = Event("handleSubmit", inflight' # inflight)
    /\ UNCHANGED <<page, state, selectedFiles, error, multiPdfData>>

TextSubmitEnabled ==
    /\ ~textPage.loading
    /\ Truthy(state.apiKey)
    /\ Truthy(Trim(textPage.inputText))

\* The submit button runs the handler when it is enabled.
textHandleSubmit ==
    /\ TextSubmitEnabled
    /\ textSubmit

textResponse(i, r) ==
    /\ Tick
    /\ i \in DOMAIN inflight /\ inflight[i].stage \in TextPages
    /\ inflight' = Answered(inflight, i)
    /\ IF r.kind = "ok"
         THEN textPage' = [textPage EXCEPT !.results = r.results, !.stored = r.results,
                                           !.loading = FALSE]
         ELSE textPage' = [textPage EXCEPT
                              !.error = ErrMessage(r, IF page = "step2"
                                                        THEN "Failed to extract attendees"
                                                        ELSE "Failed to extract vote patterns"),
                              !.loading = FALSE]
    /\ ev' = Event("textResponse", r.kind = "ok")
    /\ UNCHANGED <<page, state, selectedFiles, error, multiPdfData>>

\* ------------------------------------------------------- specification

Next ==
    \/ \E key \in ApiKeys : SetApiKey(key)
    \/ \E files \in Selections : handleFileChange(files)
    \/ handleClear
    \/ handleStep1Process
    \/ \E i \in DOMAIN inflight, r \in OcrResponses : step1Response(i, r)
    \/ \E filename \in FileNames, value \in TextEdits : handleTextEdit(filename, value)
    \/ handleStep2Process
    \/ \E i \in DOMAIN inflight, r \in BatchResponses : step2Response(i, r)
    \/ handleStep3Process
    \/ \E i \in DOMAIN inflight, r \in BatchResponses : step3Response(i, r)
    \/ \E value \in Rubrics : handleRubricChange(value)
    \/ handleClearRubric
    \/ handleAnalysisProcess
    \/ \E i \in DOMAIN inflight, r \in BatchResponses : analysisResponse(i, r)
    \/ \E files \in Selections : multiHandleFileChange(files)
    \/ multiHandleSubmit
    \/ \E i \in DOMAIN inflight, r \in OcrResponses : multiResponse(i, r)
    \/ multiHandleClear
    \/ \E text \in TextInputs : handleInputChange(text)
    \/ textHandleSubmit
    \/ \E i \in DOMAIN inflight, r \in TextResponses : textResponse(i, r)

\* One step: one handler runs to its next await (or to its end).
Spec == Init /\ [][Next]_vars

\* The handler executions of a behaviour of direct calls.
DirectTick == steps < MaxDirectSteps

\* The handlers called directly, whatever the state of their controls (a
\* form submitted from a script, a test calling the handler): every
\* validation branch of a handler can run.
NextDirect ==
    \/ \E key \in ApiKeys : DirectTick /\ SetApiKey(key)
    \/ \E files \in Selections : DirectTick /\ handleFileChange(files)
    \/ \E value \in Rubrics : DirectTick /\ handleRubricChange(value)
    \/ DirectTick /\ step1Process
    \/ \E i \in DOMAIN inflight, r \in OcrResponses : DirectTick /\ step1Response(i, r)
    \/ DirectTick /\ step2Process
    \/ DirectTick /\ step3Process
    \/ DirectTick /\ analysisProcess
    \/ \E files \in Selections : DirectTick /\ multiHandleFileChange(files)
    \/ DirectTick /\ multiSubmit
    \/ \E text \in TextInputs : DirectTick /\ handleInputChange(text)
    \/ DirectTick /\ textSubmit

SpecDirect == Init /\ [][NextDirect]_vars

\* ------------------------------------------- the store's setters, called
\* in any order with any argument, as the context value lets a consumer do.

StepNumbers == {1, 2, 3}

Statuses == {"idle", "processing", "complete", "error"}

\* Result lists a consumer can pass to setResults.
ResultLists ==
    {<<>>}
    \cup {<<InitialResult(f)>> : f \in {g \in File : IsPdf(g)}}
    \cup {OcrUpdates(<<e>>) : e \in OcrEntry}
    \cup {<<InitialResult([name |-> "a.pdf", type |-> "application/pdf"]),
             InitialResult([name |-> "b.pdf", type |-> "application/pdf"])>>}

\* Partial<PdfResult> values a consumer can pass to updateResults: no field,
\* one field, two fields, and a field given as undefined.
PartialResults ==
    {[f \in {} |-> Undef],
     [f \in {"attendees"} |-> "v1"],
     [f \in {"extractedText", "votePatterns"} |-> "t2"],
     [f \in {"error"} |-> Undef]}

UpdateLists == SeqUpTo(PartialResults, MaxUpdates)

SetterTick == steps < MaxSetterCalls /\ steps' = steps + 1

Called(op, next) ==
    /\ SetterTick
    /\ state' = next
    /\ ev' = Event(op, TRUE)
    /\ UNCHANGED <<page, textPage, selectedFiles, error, multiPdfData, inflight>>

NextSetters ==
    \/ \E step \in StepNumbers : Called("setCurrentStep", setCurrentStep(state, step))
    \/ \E key \in ApiKeys : Called("setApiKey", setApiKey(state, key))
    \/ \E files \in Selections : Called("setFiles", setFiles(state, files))
    \/ \E results \in ResultLists : Called("setResults", setResults(state, results))
    \/ \E rubric \in Rubrics : Called("setRubric", setRubric(state, rubric))
    \/ \E step \in StepNumbers, status \in Statuses :
          Called("setStepStatus", setStepStatus(state, step, status))
    \/ Called("clearData", clearData(state))
    \/ \E updates \in UpdateLists : Called("updateResults", updateResults(state, updates))

SpecSetters == Init /\ [][NextSetters]_vars

\* ------------------------------------- the batch stages after an OCR run

\* The votes page after an OCR run that succeeded for every selected file.
InitAfterOcr ==
    /\ page = "votes"
    /\ \E files \in {fs \in Selections : Len(fs) >= 1 /\ \A k \in DOMAIN fs : IsPdf(fs[k])} :
          /\ selectedFiles = files
          /\ state = [initialState EXCEPT
                         !.apiKey = "sk-1",
                         !.files = files,
                         !.results = OcrUpdates(
                             [k \in DOMAIN files |->
                                 [filename |-> files[k].name, success |-> TRUE,
                                  total_pages |-> "3", extracted_text |-> "t1",
                                  error |-> Undef]]),
                         !.step1Status = "complete"]
    /\ error = noError
    /\ multiPdfData = multiInitial
    /\ textPage = textPageInitial("")
    /\ inflight = <<>>
    /\ steps = 0
    /\ ev = Event("step1Response", TRUE)

MergeTick == steps < MaxMergeSteps

NextAfterOcr ==
    \/ \E filename \in FileNames, value \in TextEdits :
          MergeTick /\ handleTextEdit(filename, value)
    \/ MergeTick /\ handleStep2Process
    \/ \E i \in DOMAIN inflight, r \in BatchResponses : MergeTick /\ step2Response(i, r)
    \/ MergeTick /\ handleStep3Process
    \/ \E i \in DOMAIN inflight, r \in BatchResponses : MergeTick /\ step3Response(i, r)

SpecAfterOcr == InitAfterOcr /\ [][NextAfterOcr]_vars

\* ================================================================ claims

AllPdf(files) == \A k \in DOMAIN files : files[k].type = "application/pdf"

BatchData == SeqUpTo(BatchEntry, MaxFiles)

\* The store status a stage writes.
StageStatus(st, stage) ==
    CASE stage = "ocr" -> st.step1Status
      [] stage = "attendees" -> st.step2Status
      [] stage = "lawAnalysis" -> st.step2Status
      [] stage = "votePatterns" -> st.step3Status

InFlight(requests, stage) == \E i \in DOMAIN requests : requests[i].stage = stage

\* C1: for every selection of one or more files that are all PDFs,
\* handleFileChange leaves files equal to the selection and results with one
\* record per file, in order, with that file's name, success = false and
\* extractedText = ''.
C1_FileChangeInitialisesResults ==
    [][\A files \in Selections :
          (handleFileChange(files) /\ Len(files) >= 1 /\ AllPdf(files))
          => /\ state'.files = files
             /\ Len(state'.results) = Len(files)
             /\ \A k \in 1..Len(files) :
                   /\ state'.results[k].filename = files[k].name
                   /\ state'.results[k].success = FALSE
                   /\ state'.results[k].extractedText = ""]_vars

C1_Witness ==
    /\ ev = Event("handleFileChange", TRUE)
    /\ Len(state.files) = MaxFiles
    /\ Len(state.results) = MaxFiles
    /\ state.results[1].filename # state.results[2].filename

\* C2: a selection holding a non-PDF file empties the selected files and the
\* store's files, sets a validation error, and neither issues a request nor
\* changes a stage status.
C2_InvalidSelectionClears ==
    [][/\ \A files \in Selections :
            (multiHandleFileChange(files) /\ ~AllPdf(files))
            => /\ selectedFiles' = <<>>
               /\ multiPdfData'.files = <<>>
               /\ error'.multi # ""
               /\ inflight' = inflight
               /\ multiPdfData'.processingStatus = multiPdfData.processingStatus
       /\ \A files \in Selections :
            (handleFileChange(files) /\ ~AllPdf(files))
            => /\ selectedFiles' = <<>>
               /\ state'.files = <<>>
               /\ error'.upload # ""
               /\ inflight' = inflight
               /\ \A k \in 1..3 : state'[StatusField(k)] = state[StatusField(k)]]_vars

\* C3: a successful response takes its stage's status from 'processing' to
\* 'complete', and a status that is 'complete' changes only in a step that
\* invokes that stage again or clears the data.
C3_CompleteIsStable ==
    [][/\ (ev' = Event("step1Response", TRUE))
            => (state.step1Status = "processing" /\ state'.step1Status = "complete")
       /\ (ev' = Event("step2Response", TRUE))
            => (state.step2Status = "processing" /\ state'.step2Status = "complete")
       /\ (ev' = Event("step3Response", TRUE))
            => (state.step3Status = "processing" /\ state'.step3Status = "complete")
       /\ (state.step1Status = "complete" /\ state'.step1Status # "complete")
            => ev'.op \in {"handleStep1Process", "handleClear"}
       /\ (state.step2Status = "complete" /\ state'.step2Status # "complete")
            => ev'.op \in {"handleStep2Process", "handleAnalysisProcess", "handleClear"}
       /\ (state.step3Status = "complete" /\ state'.step3Status # "complete")
            => ev'.op \in {"handleStep3Process", "handleClear"}]_vars

\* C4: after clearData the store has files = [], results = [], rubric = ''
\* and all four stage statuses 'idle'.
C4_ClearDataResets ==
    ev.op = "handleClear"
    => /\ state.files = <<>>
       /\ state.results = <<>>
       /\ state.rubric = ""
       /\ state.step0Status = "idle"
       /\ state.step1Status = "idle"
       /\ state.step2Status = "idle"
       /\ state.step3Status = "idle"

\* Cleared while a request was in flight and after an OCR failure was shown.
C4_Witness ==
    /\ ev.op = "handleClear"
    /\ inflight # <<>>
    /\ error.ocr # ""

\* C5: applying one batch response twice to a result list gives the list that
\* applying it once gives: this holds of every list a stage is about to
\* merge into and of every response it can receive.
C5_MergeIdempotent ==
    \A i \in DOMAIN inflight :
        LET snap == inflight[i].snap
        IN  /\ inflight[i].stage = "attendees"
               => \A data \in BatchData :
                     MergeAttendees(MergeAttendees(snap, data), data)
                        = MergeAttendees(snap, data)
            /\ inflight[i].stage = "votePatterns"
               => \A data \in BatchData :
                     MergeVotePatterns(MergeVotePatterns(snap, data), data)
                        = MergeVotePatterns(snap, data)

\* A second attendee run over two records that carry the first run's merge.
C5_Witness ==
    \E i \in DOMAIN inflight :
        /\ inflight[i].stage = "attendees"
        /\ Len(inflight[i].snap) = MaxFiles
        /\ inflight[i].snap[1].attendees = "v1"
        /\ inflight[i].snap[2].attendeesError = "e1"

\* C6: when the OCR call returns 2xx with one entry per file, record k of the
\* stored list carries entry k's values and nothing of any other entry:
\* success and error as the entry has them, extractedText = extracted_text
\* and totalPages = total_pages.
C6_OcrRecordsCarryOwnEntry ==
    [][\A i \in DOMAIN inflight, r \in OcrResponses :
          (/\ ev' = Event("step1Response", TRUE)
           /\ r.kind = "ok"
           /\ Len(r.results) = Len(inflight[i].entries)
           /\ step1Response(i, r))
          => /\ Len(state'.results) = Len(r.results)
             /\ \A k \in 1..Len(r.results) :
                   LET e == r.results[k]
                       rec == state'.results[k]
                   IN  /\ rec.filename = e.filename
                       /\ rec.success = e.success
                       /\ rec.extractedText = e.extracted_text
                       /\ rec.totalPages = e.total_pages
                       /\ rec.error = e.error]_vars

\* The example of the specification: the first record has its text, the
\* second its error.
C6_Witness ==
    /\ ev = Event("step1Response", TRUE)
    /\ Len(state.results) = MaxFiles
    /\ state.results[1].success /\ state.results[1].extractedText = "t1"
    /\ state.results[1].error = Undef
    /\ ~state.results[2].success /\ state.results[2].error = "OCR failed"

BatchInvocations == {"handleStep2Process", "handleStep3Process", "handleAnalysisProcess"}

\* C7: the request a batch stage issues carries one {filename, text} entry
\* for each stored record with success = true and a non-empty extractedText,
\* in stored order, and no other entry.
C7_RequestEntries ==
    [][(ev'.op \in BatchInvocations /\ ev'.ok)
          => LET entries == inflight'[Len(inflight')].entries
                 rs == state.results
                 idx == {j \in DOMAIN rs :
                            rs[j].success /\ rs[j].extractedText \notin {Undef, ""}}
                 Nth(k) == CHOOSE j \in idx : Cardinality({m \in idx : m < j}) = k - 1
             IN  /\ Len(inflight') = Len(inflight) + 1
                 /\ Len(entries) = Cardinality(idx)
                 /\ \A k \in 1..Len(entries) :
                       entries[k] = [filename |-> rs[Nth(k)].filename,
                                     text |-> rs[Nth(k)].extractedText]]_vars

\* A request that leaves out one of two stored records.
C7_Witness ==
    /\ ev.op \in BatchInvocations /\ ev.ok
    /\ Len(state.results) = MaxFiles
    /\ Len(inflight[Len(inflight)].entries) = 1

Occurs(data, filename) == \E k \in DOMAIN data : data[k].filename = filename

\* C8: after a successful attendee or vote-pattern merge, every stored record
\* whose filename is not in the response has the field values it had in the
\* store immediately before the merge.
C8_UnmatchedRecordsUnchanged ==
    [][\A i \in DOMAIN inflight, r \in BatchResponses :
          (/\ ev' \in {Event("step2Response", TRUE), Event("step3Response", TRUE)}
           /\ r.kind = "ok"
           /\ (step2Response(i, r) \/ step3Response(i, r)))
          => \A j \in DOMAIN state'.results :
                ~Occurs(r.results, state'.results[j].filename)
                => /\ j \in DOMAIN state.results
                   /\ state'.results[j] = state.results[j]]_vars

\* C9: a 2xx batch response with failing entries completes the stage; each
\* record matched to a failing entry gets the field error, each record
\* matched to a succeeding entry the extracted field, and every other field
\* of every record is what it was.
C9_PartialFailureCompletes ==
    [][\A i \in DOMAIN inflight, r \in BatchResponses :
          (/\ ev' \in {Event("step2Response", TRUE), Event("step3Response", TRUE)}
           /\ r.kind = "ok"
           /\ \E k \in DOMAIN r.results : ~r.results[k].success
           /\ (step2Response(i, r) \/ step3Response(i, r)))
          => LET stage == inflight[i].stage
                 field == IF stage = "attendees" THEN "attendees" ELSE "votePatterns"
                 errField == IF stage = "attendees" THEN "attendeesError"
                                                     ELSE "votePatternsError"
                 First(fn) == CHOOSE k \in DOMAIN r.results :
                                 /\ r.results[k].filename = fn
                                 /\ \A m \in 1..(k - 1) : r.results[m].filename # fn
             IN  /\ StageStatus(state', stage) = "complete"
                 /\ DOMAIN state'.results = DOMAIN state.results
                 /\ \A j \in DOMAIN state'.results :
                       LET old == state.results[j]
                           new == state'.results[j]
                       IN  IF ~Occurs(r.results, old.filename)
                             THEN new = old
                             ELSE IF r.results[First(old.filename)].success
                                    THEN new = [old EXCEPT ![field] =
                                                   r.results[First(old.filename)].value]
                                    ELSE new = [old EXCEPT ![errField] =
                                                   r.results[First(old.filename)].error]]_vars

InvocationOf(stage) ==
    CASE stage = "ocr" -> "handleStep1Process"
      [] stage = "attendees" -> "handleStep2Process"
      [] stage = "votePatterns" -> "handleStep3Process"

ResponseOf(stage) ==
    CASE stage = "ocr" -> "step1Response"
      [] stage = "attendees" -> "step2Response"
      [] stage = "votePatterns" -> "step3Response"

\* C10: a validated invocation sets the stage's status to 'processing'; the
\* status is 'processing' in every state with a request of the stage in
\* flight; it leaves 'processing' only in the step that handles the response,
\* for 'complete' after a merge and 'error' after an exception.
C10_ProcessingWhileInFlight ==
    [][\A stage \in {"ocr", "attendees", "votePatterns"} :
          /\ (ev' = Event(InvocationOf(stage), TRUE))
                => StageStatus(state', stage) = "processing"
          /\ InFlight(inflight', stage) => StageStatus(state', stage) = "processing"
          /\ (/\ StageStatus(state, stage) = "processing"
              /\ StageStatus(state', stage) # "processing")
                => /\ ev'.op = ResponseOf(stage)
                   /\ StageStatus(state', stage) = IF ev'.ok THEN "complete" ELSE "error"]_vars

\* C11: on the multi-PDF page processingStatus is 'processing' in every state
\* in which the submit's request is in flight, so that the submit and clear
\* controls are disabled for that whole time.
C11_MultiProcessingWhileInFlight ==
    InFlight(inflight, "multi") => isProcessing

C13_NoReturnToIdle ==
    [][/\ (state.step0Status = "complete" /\ state'.step0Status = "idle")
            => ev'.op = "handleClear"
       /\ \A k \in 1..3 :
            (/\ state[StatusField(k)] \in {"complete", "error"}
             /\ state'[StatusField(k)] = "idle")
            => ev'.op = "handleClear"
       /\ (/\ multiPdfData.processingStatus \in {"complete", "error"}
           /\ multiPdfData'.processingStatus = "idle")
            => ev'.op = "multiHandleClear"]_vars

AdvanceableRecord == \E k \in DOMAIN state.results : Advanceable(state.results[k])

\* The state fails the client-side validation of the handler.
Invalid(op) ==
    CASE op = "handleStep1Process" -> ~Truthy(state.apiKey) \/ Len(state.files) = 0
      [] op = "handleStep2Process" -> ~Truthy(state.apiKey)
      [] op = "handleStep3Process" -> ~Truthy(state.apiKey)
      [] op = "handleAnalysisProcess" ->
            \/ ~Truthy(state.apiKey)
            \/ ~Truthy(Trim(state.rubric))
            \/ ~AdvanceableRecord
      [] op = "handleSubmit" ->
            ~Truthy(state.apiKey) \/ ~Truthy(Trim(textPage.inputText))

ErrorField(op) ==
    CASE op = "handleStep1Process" -> "ocr"
      [] op = "handleStep2Process" -> "step2"
      [] op = "handleStep3Process" -> "step3"
      [] op = "handleAnalysisProcess" -> "analysis"

\* C14: a handler invoked in a state that fails its client-side validation
\* (empty apiKey; OCR without files; law analysis with a blank rubric or no
\* advanceable record; step 2 / step 3 with a blank text) issues no request,
\* sets its inline error and leaves the store (statuses, results) unchanged.
C14_ValidationBlocksSubmission ==
    [][\A op \in {"handleStep1Process", "handleStep2Process", "handleStep3Process",
                 "handleAnalysisProcess", "handleSubmit"} :
          (ev'.op = op /\ Invalid(op))
          => /\ inflight' = inflight
             /\ state' = state
             /\ textPage'.loading = textPage.loading
             /\ textPage'.stored = textPage.stored
             /\ IF op = "handleSubmit"
                  THEN textPage'.error # ""
                  ELSE error'[ErrorField(op)] # ""]_vars

\* A whitespace-only text submitted with a key set, after a first valid
\* submit is in flight.
C14_Witness ==
    /\ ev = Event("handleSubmit", FALSE)
    /\ state.apiKey # ""
    /\ textPage.inputText = " "
    /\ textPage.error = "Please enter text to analyze"
    /\ inflight # <<>>

HasText(rec) == rec.success /\ rec.extractedText \notin {Undef, ""}

HasTextAndAttendees(rec) == HasText(rec) /\ rec.attendees \notin {Undef, ""}

\* The entries are, in number and in content, the records of rs at the
\* indexes idx.
SentOnly(entries, rs, idx) ==
    /\ Len(entries) = Cardinality(idx)
    /\ \A k \in DOMAIN entries :
          \E j \in idx :
              entries[k] = [filename |-> rs[j].filename, text |-> rs[j].extractedText]

\* C15: the attendee request carries only records with success = true and a
\* non-empty extractedText, and the vote-pattern request only records that
\* also carry an attendees result.
C15_OnlyReadyRecordsAreSent ==
    [][/\ (ev' = Event("handleStep2Process", TRUE))
            => SentOnly(inflight'[Len(inflight')].entries, state.results,
                        {j \in DOMAIN state.results : HasText(state.results[j])})
       /\ (ev' = Event("handleStep3Process", TRUE))
            => SentOnly(inflight'[Len(inflight')].entries, state.results,
                        {j \in DOMAIN state.results :
                            HasTextAndAttendees(state.results[j])})]_vars

MainStages == {"ocr", "attendees", "votePatterns", "lawAnalysis"}

\* C16: no reachable state has two requests of the same stage of the main
\* page in flight.
C16_OneRequestPerStage ==
    \A i, j \in DOMAIN inflight :
        (inflight[i].stage \in MainStages /\ inflight[i].stage = inflight[j].stage)
        => i = j

ResponseOps ==
    {"step1Response", "step2Response", "step3Response", "analysisResponse",
     "multiResponse", "textResponse"}

\* C17: a request in flight is never cancelled. Only the handling of its
\* response removes a request, whatever happened (clearData, a new
\* selection) while it was in flight, and the response is applied in full:
\* an OCR response replaces results by the records of its entries and sets
\* step1Status to 'complete', a failure sets it to 'error'; the batch stages
\* set their status likewise.
C17_ResponsesAlwaysApplied ==
    [][/\ inflight' # inflight
            => \/ /\ ev'.op \in ResponseOps
                  /\ Len(inflight') = Len(inflight) - 1
               \/ /\ ev'.op \notin ResponseOps
                  /\ Len(inflight') = Len(inflight) + 1
                  /\ \A i \in DOMAIN inflight : inflight'[i] = inflight[i]
       /\ ev'.op = "step1Response"
            => /\ state'.step1Status = IF ev'.ok THEN "complete" ELSE "error"
               /\ ev'.ok
                    => \E r \in OcrResponses :
                          /\ r.kind = "ok"
                          /\ Len(state'.results) = Len(r.results)
                          /\ \A k \in DOMAIN r.results :
                                /\ state'.results[k].filename = r.results[k].filename
                                /\ state'.results[k].success = r.results[k].success
                                /\ state'.results[k].extractedText
                                      = r.results[k].extracted_text
                                /\ state'.results[k].error = r.results[k].error
       /\ ev'.op = "step2Response"
            => state'.step2Status = IF ev'.ok THEN "complete" ELSE "error"
       /\ ev'.op = "step3Response"
            => state'.step3Status = IF ev'.ok THEN "complete" ELSE "error"]_vars

\* An OCR response applied after Clear All emptied the store while the
\* request was in flight.
C17_Witness ==
    /\ ev = Event("step1Response", TRUE)
    /\ state.files = <<>>
    /\ state.step1Status = "complete"
    /\ Len(state.results) = MaxFiles
    /\ state.results[1].success

TriggerOps ==
    {"handleStep1Process", "handleStep2Process", "handleStep3Process",
     "handleAnalysisProcess", "multiHandleSubmit", "handleSubmit"}

\* C18: an invocation of a stage issues at most one request, and requests
\* are issued by invocations only: the handling of a response, failed or
\* not, issues none (no retry), so that after a failure the stage has a new
\* request only once the user has triggered it again.
C18_NoRetry ==
    [][/\ Len(inflight') <= Len(inflight) + 1
       /\ Len(inflight') > Len(inflight) => (ev'.op \in TriggerOps /\ ev'.ok)
       /\ ev'.op \in ResponseOps
            => /\ Len(inflight') = Len(inflight) - 1
               /\ \A stage \in MainStages :
                     Cardinality({i \in DOMAIN inflight' : inflight'[i].stage = stage})
                        <= Cardinality({i \in DOMAIN inflight : inflight[i].stage = stage})]_vars

\* A failed attendee call that left no request behind.
C18_Witness ==
    /\ ev = Event("step2Response", FALSE)
    /\ state.step2Status = "error"
    /\ error.step2 # ""
    /\ inflight = <<>>

C20_SettersShallowMerge ==
    /\ \A key \in ApiKeys :
          /\ setApiKey(state, key).apiKey = key
          /\ \A f \in DOMAIN state \ {"apiKey"} : setApiKey(state, key)[f] = state[f]
    /\ \A files \in Selections :
          /\ setFiles(state, files).files = files
          /\ \A f \in DOMAIN state \ {"files"} : setFiles(state, files)[f] = state[f]
    /\ \A results \in ResultLists :
          /\ setResults(state, results).results = results
          /\ \A f \in DOMAIN state \ {"results"} :
                setResults(state, results)[f] = state[f]
    /\ \A k \in StepNumbers, v \in Statuses :
          /\ setStepStatus(state, k, v)[StatusField(k)] = v
          /\ \A f \in DOMAIN state \ {StatusField(k)} :
                setStepStatus(state, k, v)[f] = state[f]

\* A store whose results are not empty when files is set.
C20_Witness ==
    /\ ev.op = "setFiles"
    /\ state.files # <<>>
    /\ state.results # <<>>
    /\ state.step1Status = "complete"

\* C21: a selection that mixes PDF and non-PDF files is rejected whole: the
\* store's files and results and the locally selected files stay what they
\* were and the error is shown.
C21_MixedSelectionRejected ==
    [][\A files \in Selections :
          (/\ ev' = Event("handleFileChange", FALSE)
           /\ ~AllPdf(files)
           /\ \E k \in DOMAIN files : IsPdf(files[k])
           /\ handleFileChange(files))
          => /\ state'.files = state.files
             /\ state'.results = state.results
             /\ selectedFiles' = selectedFiles
             /\ inflight' = inflight
             /\ error'.upload # ""]_vars

\* A mixed selection rejected over an earlier accepted selection of another
\* file.
C21_Witness ==
    /\ ev = Event("handleFileChange", FALSE)
    /\ Len(state.files) = 1
    /\ selectedFiles = state.files
    /\ Len(state.results) = 1
    /\ error.upload = "Only PDF files are allowed"

\* The state InitAfterOcr starts from is one the pages reach.
AfterOcrReached ==
    /\ page = "votes"
    /\ ev = Event("step1Response", TRUE)
    /\ state.apiKey = "sk-1"
    /\ state.step1Status = "complete"
    /\ Len(state.files) = MaxFiles
    /\ Len(state.results) = MaxFiles
    /\ \A k \in DOMAIN state.results :
          /\ state.results[k].filename = state.files[k].name
          /\ state.results[k].success
          /\ state.results[k].extractedText = "t1"
    /\ inflight = <<>>

\* C22: a successful stage merge stores a whole list built from the results
\* its handler captured at invocation: every field but the stage's own pair
\* is the captured one, whatever the store holds when the response is
\* handled, so what was written in between (a text edit, the other stage's
\* field) is overwritten; the stage status becomes 'complete'.
C22_LastWriteWins ==
    [][\A stage \in {"attendees", "votePatterns"} :
          (ev' = Event(ResponseOf(stage), TRUE))
          => /\ StageStatus(state', stage) = "complete"
             /\ \E i \in DOMAIN inflight :
                   LET snap == inflight[i].snap
                       own == IF stage = "attendees"
                                THEN {"attendees", "attendeesError"}
                                ELSE {"votePatterns", "votePatternsError"}
                   IN  /\ inflight[i].stage = stage
                       /\ inflight' = Answered(inflight, i)
                       /\ Len(state'.results) = Len(snap)
                       /\ \A j \in DOMAIN snap :
                             \A f \in DOMAIN snap[j] \ own :
                                 state'.results[j][f] = snap[j][f]]_vars

\* The vote-pattern response has just been handled and the stored text is
\* again the one captured at its invocation: the edit made while it was in
\* flight is gone from the store, and is still seen in the snapshot of the
\* attendee request issued after the edit and now overlapping.
C22_Witness ==
    /\ ev = Event("step3Response", TRUE)
    /\ state.step3Status = "complete"
    /\ state.results[1].extractedText = "t1"
    /\ \E i \in DOMAIN inflight :
          /\ inflight[i].stage = "attendees"
          /\ inflight[i].snap[1].filename = state.results[1].filename
          /\ inflight[i].snap[1].extractedText = "t2"

\* The first entry of data with the filename.
FirstEntry(data, filename) ==
    data[CHOOSE k \in DOMAIN data :
            /\ data[k].filename = filename
            /\ \A m \in 1..(k - 1) : data[m].filename # filename]

\* C23: filename matching does not tell records with one filename apart. The
\* attendee merge gives every stored record the outcome of the first
\* response entry with the record's filename, records sharing a filename
\* included, and handleTextEdit sets extractedText of every record with the
\* filename and of no other.
C23_DuplicateFilenamesCollide ==
    [][/\ \A i \in DOMAIN inflight, r \in BatchResponses :
            (/\ ev' = Event("step2Response", TRUE)
             /\ r.kind = "ok"
             /\ step2Response(i, r))
            => \A j \in DOMAIN state'.results :
                  LET fn == state'.results[j].filename
                  IN  Occurs(r.results, fn)
                      => IF FirstEntry(r.results, fn).success
                           THEN state'.results[j].attendees
                                   = FirstEntry(r.results, fn).value
                           ELSE state'.results[j].attendeesError
                                   = FirstEntry(r.results, fn).error
       /\ \A filename \in FileNames, value \in TextEdits :
            (ev'.op = "handleTextEdit" /\ handleTextEdit(filename, value))
            => /\ Len(state'.results) = Len(state.results)
               /\ \A j \in DOMAIN state.results :
                     IF state.results[j].filename = filename
                       THEN state'.results[j]
                               = [state.results[j] EXCEPT !.extractedText = value]
                       ELSE state'.results[j] = state.results[j]]_vars

\* Two stored records with one filename, both with the attendees of one
\* entry and both with the edited text.
C23_Witness ==
    /\ ev = Event("step2Response", TRUE)
    /\ Len(state.results) = 2
    /\ state.results[1].filename = state.results[2].filename
    /\ state.results[1].attendees = "v1" /\ state.results[2].attendees = "v1"
    /\ state.results[1].extractedText = "t2" /\ state.results[2].extractedText = "t2"

\* C24: updateResults merges by position. Record i of a list with an update
\* i has the update's fields with the update's values and its other fields
\* as before; a record without an update is unchanged; updates beyond the
\* end of the list are dropped, so that the length is unchanged; and no
\* other slice of the state changes.
C24_UpdateResultsPositional ==
    \A updates \in UpdateLists :
        LET next == updateResults(state, updates)
        IN  /\ Len(next.results) = Len(state.results)
            /\ \A i \in DOMAIN state.results :
                  IF i \in DOMAIN updates
                    THEN /\ DOMAIN next.results[i]
                               = DOMAIN state.results[i] \cup DOMAIN updates[i]
                         /\ \A f \in DOMAIN updates[i] :
                               next.results[i][f] = updates[i][f]
                         /\ \A f \in DOMAIN state.results[i] \ DOMAIN updates[i] :
                               next.results[i][f] = state.results[i][f]
                    ELSE next.results[i] = state.results[i]
            /\ \A f \in DOMAIN state \ {"results"} : next[f] = state[f]

\* A list of two records after updateResults with one update: the first
\* record has the update's field, the second is the unchanged initial record.
C24_Witness ==
    /\ ev.op = "updateResults"
    /\ Len(state.results) = 2
    /\ state.results[1].attendees = "v1"
    /\ state.results[1].filename = "a.pdf"
    /\ state.results[2] = InitialResult([name |-> "b.pdf", type |-> "application/pdf"])

\* C25: the stages are ordered through the trigger controls. An attendee
\* request is issued only where step1Status is 'complete' and a record has
\* success = true, a vote-pattern request only where step2Status is
\* 'complete' and a record has attendees; on the votes page step2Status
\* becomes 'complete' only by a successful attendee response and a clear
\* makes it 'idle', so that a vote-pattern request always follows an
\* attendee stage completed since the last clear.
C25_StageOrdering ==
    [][/\ (ev' = Event("handleStep2Process", TRUE))
            => /\ state.step1Status = "complete"
               /\ \E i \in DOMAIN state.results : state.results[i].success = TRUE
       /\ (ev' = Event("handleStep3Process", TRUE))
            => /\ state.step2Status = "complete"
               /\ \E i \in DOMAIN state.results : state.results[i].attendees # Undef
       /\ (page = "votes" /\ state.step2Status # "complete"
                          /\ state'.step2Status = "complete")
            => ev' = Event("step2Response", TRUE)
       /\ (ev'.op = "handleClear") => state'.step2Status = "idle"]_vars

\* A vote-pattern request issued after the attendee stage has completed.
C25_Witness ==
    /\ ev = Event("handleStep3Process", TRUE)
    /\ state.step2Status = "complete"
    /\ state.step3Status = "processing"
    /\ \E i \in DOMAIN inflight : inflight[i].stage = "votePatterns"

\* C26: a successful OCR completion stores one record per response entry, in
\* the order of the response and whatever the number of selected files, with
\* none of the attendee, vote-pattern and analysis fields, and leaves
\* step2Status and step3Status as they were.
C26_OcrCompletionReplacesResults ==
    [][\A i \in DOMAIN inflight, r \in OcrResponses :
          (/\ ev' = Event("step1Response", TRUE)
           /\ r.kind = "ok"
           /\ step1Response(i, r))
          => /\ Len(state'.results) = Len(r.results)
             /\ \A k \in DOMAIN r.results :
                   /\ state'.results[k].filename = r.results[k].filename
                   /\ state'.results[k].success = r.results[k].success
                   /\ state'.results[k].extractedText = r.results[k].extracted_text
                   /\ \A f \in {"attendees", "attendeesError", "votePatterns",
                                "votePatternsError", "lawAnalysis", "lawAnalysisError"} :
                         state'.results[k][f] = Undef
             /\ state'.step1Status = "complete"
             /\ state'.step2Status = state.step2Status
             /\ state'.step3Status = state.step3Status]_vars

\* After a second OCR run the attendee stage is still 'complete' and no
\* record has attendees or attendeesError; the list is longer than the
\* selection.
C26_Witness ==
    /\ ev = Event("step1Response", TRUE)
    /\ state.step2Status = "complete"
    /\ Len(state.results) = 2
    /\ Len(state.files) = 1
    /\ \A k \in DOMAIN state.results :
          state.results[k].attendees = Undef /\ state.results[k].attendeesError = Undef

\* C27: a selection of PDF files only replaces files by the selection and
\* results by one initial record per file (success false, no text) and
\* changes none of the stage statuses, whatever stage has completed.
C27_SelectionKeepsStatuses ==
    [][(ev' = Event("handleFileChange", TRUE))
          => /\ state'.files = selectedFiles'
             /\ Len(state'.results) = Len(state'.files)
             /\ \A k \in DOMAIN state'.results :
                   /\ state'.results[k].filename = state'.files[k].name
                   /\ state'.results[k].success = FALSE
                   /\ state'.results[k].extractedText = ""
             /\ \A f \in {"step0Status", "step1Status", "step2Status", "step3Status"} :
                   state'[f] = state[f]]_vars

\* Files selected after the OCR and attendee stages have completed: both
\* statuses still say 'complete' and no record is successful.
C27_Witness ==
    /\ ev = Event("handleFileChange", TRUE)
    /\ state.step1Status = "complete"
    /\ state.step2Status = "complete"
    /\ state.results # <<>>
    /\ \A k \in DOMAIN state.results :
          state.results[k].success = FALSE /\ state.results[k].extractedText = ""

\* C28: clearData keeps apiKey and currentStep, and Clear All (clearData,
\* then setCurrentStep(1)) leaves the initial state with the API key of the
\* state it was called in, whatever that state was.
C28_ClearAllKeepsApiKey ==
    /\ clearData(state).apiKey = state.apiKey
    /\ clearData(state).currentStep = state.currentStep
    /\ setCurrentStep(clearData(state), 1) = [initialState EXCEPT !.apiKey = state.apiKey]
    /\ (ev.op = "clearData")
          => state = [initialState EXCEPT !.apiKey = state.apiKey,
                                          !.currentStep = state.currentStep]

\* clearData called in a store with an API key and currentStep 3: both are
\* still there.
C28_Witness ==
    /\ ev.op = "clearData"
    /\ state.apiKey = "sk-1"
    /\ state.currentStep = 3
    /\ state.step1Status = "idle"

\* C29: whatever setters were called, setRubric and clearData among them,
\* step0Status is 'complete' when the rubric has a character that is not
\* white space and 'idle' when it has none.
C29_Step0StatusFollowsRubric ==
    /\ state.rubric \in Rubrics
    /\ state.step0Status = IF state.rubric \in {"", " "} THEN "idle" ELSE "complete"

\* A rubric of white space only, just set: the stage is idle.
C29_Witness ==
    /\ ev.op = "setRubric"
    /\ state.rubric = " "
    /\ state.step0Status = "idle"
    /\ steps = 3

\* C30: a stage merge writes one field of a record and keeps the other of
\* the pair. For a record with a matching entry, a succeeding entry sets
\* attendees (votePatterns) and keeps the attendeesError (votePatternsError)
\* of the merged list, a failing entry sets the error and keeps the
\* extracted value; a record without a matching entry keeps both.
C30_MergeKeepsCounterpart ==
    [][\A stage \in {"attendees", "votePatterns"} :
        \A i \in DOMAIN inflight, r \in BatchResponses :
          (/\ ev' = Event(ResponseOf(stage), TRUE)
           /\ r.kind = "ok"
           /\ inflight[i].stage = stage
           /\ IF stage = "attendees" THEN step2Response(i, r) ELSE step3Response(i, r))
          => LET snap == inflight[i].snap
                 errField == IF stage = "attendees" THEN "attendeesError"
                                                    ELSE "votePatternsError"
             IN  \A j \in DOMAIN snap :
                    IF Occurs(r.results, snap[j].filename)
                      THEN IF FirstEntry(r.results, snap[j].filename).success
                             THEN /\ state'.results[j][stage] = "v1"
                                  /\ state'.results[j][errField] = snap[j][errField]
                             ELSE /\ state'.results[j][errField] = "e1"
                                  /\ state'.results[j][stage] = snap[j][stage]
                      ELSE /\ state'.results[j][stage] = snap[j][stage]
                           /\ state'.results[j][errField] = snap[j][errField]]_vars

\* After a re-run of the attendee stage a record carries attendees and
\* attendeesError.
C30_Witness ==
    /\ ev = Event("step2Response", TRUE)
    /\ \E j \in DOMAIN state.results :
          /\ state.results[j].attendees = "v1"
          /\ state.results[j].attendeesError = "e1"
====
